---- MODULE Spec2Model ----
(***************************************************************************)
(* Model of the primitive operation tables of src/src/utilities.c          *)
(* (print, compare, to-string and from-string families) together with the  *)
(* error macros of dbg.h they are built on, and of the macros COMPARE,      *)
(* SIGN, RANGE and FOR_EACH of src/include/macros.h.                        *)
(*                                                                         *)
(* Representation choices                                                  *)
(*  - a handle is a sequence of length <= 1: << >> is the NULL handle,     *)
(*    <<v>> a pointer to the value v;                                      *)
(*  - a text (a C string) is a sequence of one-character strings; the   *)
(*    NUL terminator is implicit at Len(s) + 1;                            *)
(*  - an int is an integer of INT_MIN..INT_MAX (32 bits, two's complement);*)
(*  - a long (64 bits) is held as sign and magnitude in two decimal limbs, *)
(*    magnitude = hi * LIMB + lo, because its values exceed 32 bits;       *)
(*  - a double is held as the decimal it denotes, m * 10^e with m free of  *)
(*    trailing zeros, or as inf / nan.  Decimals of at most DBL_DIG digits *)
(*    map one-to-one and monotonically to binary64 values, so equality and *)
(*    order are those of the decimals;                                     *)
(*  - a char is its signed code where it is compared, and its byte (a      *)
(*    one-character string, "" for NUL) where it is read from or written   *)
(*    to a text;                                                           *)
(*  - a generic pointer is the hexadecimal digits of its address;          *)
(*  - a stream is a handle to the bytes written to it so far;              *)
(*  - a heap block has an address; malloc and strdup hand out addresses    *)
(*    of two disjoint ranges, and each call records the allocator calls it *)
(*    made;                                                                *)
(*  - a loop macro is the for statement it expands to, run one pass of     *)
(*    condition, body and step at a time.                                  *)
(***************************************************************************)
EXTENDS Integers, Sequences, FiniteSets, TLC

\* ---- bounds ----

\* longest text built from GenAlphabet that is offered to the parsers
MaxLen == 2

\* number of heap blocks malloc can hand out before it reports exhaustion
MaxBlocks == 2

\* most print calls a caller makes on one stream
MaxPrints == 2

\* RANGE runs between bounds of -MaxRange .. MaxRange
MaxRange == 2

\* ---- platform constants ----

INT_MAX == 2147483647

INT_MIN == (-INT_MAX) - 1

CHAR_MAX == 127

CHAR_MIN == (-CHAR_MAX) - 1

ERANGE == 34

ENOMEM == 12

DBL_DIG == 15

DBL_MAX_10_EXP == 308

DBL_MIN_10_EXP == 0 - 307

\* decimal limb of the long representation (10^8)
LIMB == 10000 * 10000

\* the NULL handle and a pointer to v
NULL == << >>

Ptr(v) == <<v>>

\* a C truth value
B(c) == IF c THEN 1 ELSE 0

\* ---- characters ----

Digits == {"0", "1", "2", "3", "4", "5", "6", "7", "8", "9"}

\* value of a decimal digit character (c - '0')
DigitVal(c) ==
  CASE c = "0" -> 0 [] c = "1" -> 1 [] c = "2" -> 2 [] c = "3" -> 3
    [] c = "4" -> 4 [] c = "5" -> 5 [] c = "6" -> 6 [] c = "7" -> 7
    [] c = "8" -> 8 [] c = "9" -> 9

\* digit character of a value 0..9 ('0' + d)
DigitChar(d) ==
  CASE d = 0 -> "0" [] d = 1 -> "1" [] d = 2 -> "2" [] d = 3 -> "3"
    [] d = 4 -> "4" [] d = 5 -> "5" [] d = 6 -> "6" [] d = 7 -> "7"
    [] d = 8 -> "8" [] d = 9 -> "9"

\* isspace() in the C locale, over the characters the texts use
IsSpace(c) == c \in {" "}

\* the terminating NUL character
NUL == ""

\* character at 1-based position i of text s; NUL is the terminator
At(s, i) == IF i <= Len(s) THEN s[i] ELSE NUL

\* ---- long arithmetic ----

\* the long 0
LZero == [neg |-> FALSE, hi |-> 0, lo |-> 0]

\* acc * 10 + d on the magnitude (the accumulation step of strtol)
LMulAdd(x, d) ==
  LET t == (x.lo * 10) + d
  IN  [neg |-> x.neg, hi |-> (x.hi * 10) + (t \div LIMB), lo |-> t % LIMB]

\* int -> long, the implicit widening of INT_MAX in "tmp > INT_MAX"
IntToLong(n) ==
  IF n >= 0
    THEN [neg |-> FALSE, hi |-> n \div LIMB, lo |-> n % LIMB]
    ELSE LET m1 == -(n + 1)
             l1 == (m1 % LIMB) + 1
         IN  [neg |-> TRUE, hi |-> (m1 \div LIMB) + (l1 \div LIMB), lo |-> l1 % LIMB]

\* magnitude comparison
MagLess(x, y) == x.hi < y.hi \/ (x.hi = y.hi /\ x.lo < y.lo)

IsLZero(x) == x.hi = 0 /\ x.lo = 0

\* x < y on longs
LongLess(x, y) ==
  LET xn == x.neg /\ ~IsLZero(x)
      yn == y.neg /\ ~IsLZero(y)
  IN  IF xn /\ ~yn THEN TRUE
      ELSE IF ~xn /\ yn THEN FALSE
      ELSE IF xn THEN MagLess(y, x)
      ELSE MagLess(x, y)

\* x - 2^32 for a magnitude x >= 2^32  (2^32 = 42 * LIMB + 94967296)
MagSubTwo32(x) ==
  IF x.lo >= 94967296
    THEN [neg |-> x.neg, hi |-> x.hi - 42, lo |-> x.lo - 94967296]
    ELSE [neg |-> x.neg, hi |-> x.hi - 43, lo |-> (x.lo + LIMB) - 94967296]

\* magnitude reduced below 2^32
RECURSIVE MagMod32(_)
MagMod32(x) ==
  IF MagLess(x, [hi |-> 42, lo |-> 94967296]) THEN x ELSE MagMod32(MagSubTwo32(x))

\* the int whose sign is neg and whose magnitude modulo 2^32 is r
FoldInt(neg, r) ==
  IF MagLess(IntToLong(INT_MAX), r)
    \* r - 2^32, computed without leaving 32 bits; -INT_MIN wraps to INT_MIN
    THEN IF neg /\ r.hi = 21 /\ r.lo = 47483648
           THEN INT_MIN
           ELSE IF neg THEN 0 - (((r.hi - 42) * LIMB) + (r.lo - 94967296))
           ELSE ((r.hi - 42) * LIMB) + (r.lo - 94967296)
    ELSE IF neg THEN 0 - ((r.hi * LIMB) + r.lo) ELSE (r.hi * LIMB) + r.lo

\* (int) tmp: the narrowing conversion long -> int, modulo 2^32 (gcc)
LongToInt(x) == FoldInt(x.neg, MagMod32(x))

\* ---- strtol ----

\* index of the first character at or after i that is not white space
RECURSIVE SkipSpace(_, _)
SkipSpace(s, i) == IF IsSpace(At(s, i)) THEN SkipSpace(s, i + 1) ELSE i

\* index just past the run of decimal digits that starts at i
RECURSIVE DigitsEnd(_, _)
DigitsEnd(s, i) == IF At(s, i) \in Digits THEN DigitsEnd(s, i + 1) ELSE i

\* magnitude of the decimal digits s[i .. j-1], accumulated onto acc
RECURSIVE Accumulate(_, _, _, _)
Accumulate(s, i, j, acc) ==
  IF i >= j THEN acc ELSE Accumulate(s, i + 1, j, LMulAdd(acc, DigitVal(s[i])))

\* the digits of strtol: i1 is the position after white space and sign,
\* i2 the end of the digits
StrtolDigits(s, neg, i1, i2) ==
  IF i2 = i1
    THEN [val |-> LZero, end |-> 0, erange |-> FALSE]
    ELSE [val |-> [Accumulate(s, i1, i2, LZero) EXCEPT !.neg = neg],
          end |-> i2 - 1, erange |-> FALSE]

\* strtol from the optional sign at position i0
StrtolSign(s, i0) ==
  IF At(s, i0) \in {"-", "+"}
    THEN StrtolDigits(s, At(s, i0) = "-", i0 + 1, DigitsEnd(s, i0 + 1))
    ELSE StrtolDigits(s, FALSE, i0, DigitsEnd(s, i0))

\* strtol(str, &end, 10): val is the long returned, end the number of
\* characters consumed (end - str), erange whether errno is set to ERANGE.
\* Magnitudes stay below 10^16 < LONG_MAX for the texts offered, so the
\* saturating branch of strtol is never taken.
strtol(s) == StrtolSign(s, SkipSpace(s, 1))

\* ---- doubles ----

RECURSIVE Pow10(_)
Pow10(k) == IF k <= 0 THEN 1 ELSE 10 * Pow10(k - 1)

\* number of decimal digits of m > 0
RECURSIVE NumDigits(_)
NumDigits(m) == IF m < 10 THEN 1 ELSE 1 + NumDigits(m \div 10)

\* the double m * 10^e with the trailing zeros of m moved into e
RECURSIVE Decimal(_, _, _)
Decimal(neg, m, e) ==
  IF m = 0 THEN [cls |-> "fin", neg |-> neg, m |-> 0, e |-> 0, lo |-> << >>]
  ELSE IF m % 10 = 0 THEN Decimal(neg, m \div 10, e + 1)
  ELSE [cls |-> "fin", neg |-> neg, m |-> m, e |-> e, lo |-> << >>]

Infinity(neg) == [cls |-> "inf", neg |-> neg, m |-> 0, e |-> 0, lo |-> << >>]

NaN == [cls |-> "nan", neg |-> FALSE, m |-> 0, e |-> 0, lo |-> << >>]

\* the double d with the further significant digits lo after those of m
\* (m * 10^e holds the first nine); only values that are formatted have any
Wide(d, lo) == [d EXCEPT !.lo = lo]

\* exponent of d in scientific notation (d = x.yyy * 10^SciExp), d finite, nonzero
SciExp(d) == (NumDigits(d.m) - 1) + d.e

\* the first nine significant digits of d (mantissas have at most nine)
Lead9(d) == d.m * Pow10(9 - NumDigits(d.m))

\* |d1| < |d2| for finite d1, d2
AbsLess(d1, d2) ==
  IF d2.m = 0 THEN FALSE
  ELSE IF d1.m = 0 THEN TRUE
  ELSE IF SciExp(d1) # SciExp(d2) THEN SciExp(d1) < SciExp(d2)
  ELSE Lead9(d1) < Lead9(d2)

\* d1 < d2 as the C operator evaluates it: false whenever an operand is NaN
DLess(d1, d2) ==
  IF d1.cls = "nan" \/ d2.cls = "nan" THEN FALSE
  ELSE IF d1.cls = "inf" THEN d1.neg /\ ~(d2.cls = "inf" /\ d2.neg)
  ELSE IF d2.cls = "inf" THEN ~d2.neg
  ELSE LET n1 == d1.neg /\ d1.m # 0
           n2 == d2.neg /\ d2.m # 0
       IN  IF n1 /\ ~n2 THEN TRUE
           ELSE IF ~n1 /\ n2 THEN FALSE
           ELSE IF n1 THEN AbsLess(d2, d1)
           ELSE AbsLess(d1, d2)

\* d1 == d2 as the C operator evaluates it (NaN differs from everything,
\* -0.0 equals 0.0)
DEq(d1, d2) ==
  /\ d1.cls # "nan" /\ d2.cls # "nan"
  /\ ~DLess(d1, d2) /\ ~DLess(d2, d1)

\* the magnitude exceeds DBL_MAX = 1.7976931348623157e308
Overflows(d) ==
  /\ d.m # 0
  /\ \/ SciExp(d) > DBL_MAX_10_EXP
     \/ SciExp(d) = DBL_MAX_10_EXP /\ Lead9(d) > 179769313

\* the magnitude is below DBL_MIN = 2.2250738585072014e-308: the result is
\* subnormal and inexact
Underflows(d) ==
  /\ d.m # 0
  /\ \/ SciExp(d) < DBL_MIN_10_EXP - 1
     \/ SciExp(d) = DBL_MIN_10_EXP - 1 /\ Lead9(d) <= 222507385

\* the magnitude rounds to zero: below half of the least subnormal,
\* 4.9406564584124654e-324 / 2
RoundsToZero(d) ==
  /\ d.m # 0
  /\ \/ SciExp(d) < 0 - 324
     \/ SciExp(d) = 0 - 324 /\ Lead9(d) <= 247032822

\* ---- strtod ----

\* tolower() over the letters of the special values
ToLower(c) ==
  CASE c = "I" -> "i" [] c = "N" -> "n" [] c = "F" -> "f" [] c = "A" -> "a"
    [] c = "E" -> "e" [] OTHER -> c

\* text s continues at position i with the letters w, in either case
RECURSIVE Matches(_, _, _)
Matches(s, i, w) ==
  \/ w = << >>
  \/ ToLower(At(s, i)) = Head(w) /\ Matches(s, i + 1, Tail(w))

\* plain integer value of the decimal digits s[i .. j-1], accumulated onto acc
RECURSIVE DigitsValue(_, _, _, _)
DigitsValue(s, i, j, acc) ==
  IF i >= j THEN acc ELSE DigitsValue(s, i + 1, j, (acc * 10) + DigitVal(s[i]))

\* the result of strtod for the decimal d that ends at character e
StrtodRange(d, e) ==
  IF Overflows(d)
    THEN [val |-> Infinity(d.neg), end |-> e, erange |-> TRUE]
  ELSE IF Underflows(d)
    THEN [val |-> IF RoundsToZero(d) THEN Decimal(d.neg, 0, 0) ELSE d,
          end |-> e, erange |-> TRUE]
  ELSE [val |-> d, end |-> e, erange |-> FALSE]

\* the optional exponent after a mantissa that ends before position i3:
\* x1 is the position after "e" and its sign, x2 the end of its digits;
\* the exponent is taken only when it has a digit
StrtodExponent(s, neg, mant, nfrac, i3, x1, x2) ==
  IF ToLower(At(s, i3)) = "e" /\ x2 > x1
    THEN IF At(s, i3 + 1) = "-"
           THEN StrtodRange(Decimal(neg, mant, (0 - DigitsValue(s, x1, x2, 0)) - nfrac),
                            x2 - 1)
           ELSE StrtodRange(Decimal(neg, mant, DigitsValue(s, x1, x2, 0) - nfrac),
                            x2 - 1)
    ELSE StrtodRange(Decimal(neg, mant, 0 - nfrac), i3 - 1)

\* the mantissa: integer digits s[i1 .. i2-1], then, when dot, a point
\* and the fraction digits s[i2+1 .. i3-1]
StrtodMantissa(s, neg, i1, i2, dot, i3, x1) ==
  IF (i3 - i1) - B(dot) = 0
    THEN [val |-> Decimal(FALSE, 0, 0), end |-> 0, erange |-> FALSE]
    ELSE StrtodExponent(s, neg,
                        DigitsValue(s, i2 + 1, i3, DigitsValue(s, i1, i2, 0)),
                        (i3 - i2) - B(dot), i3, x1, DigitsEnd(s, x1))

\* the integer part ends at i2
StrtodPoint(s, neg, i1, i2, i3) ==
  StrtodMantissa(s, neg, i1, i2, At(s, i2) = ".", i3,
                 IF At(s, i3 + 1) \in {"-", "+"} THEN i3 + 2 ELSE i3 + 1)

\* the literal or number at position i1, after white space and sign
StrtodNumber(s, neg, i1, i2) ==
  IF Matches(s, i1, <<"i", "n", "f", "i", "n", "i", "t", "y">>)
    THEN [val |-> Infinity(neg), end |-> i1 + 7, erange |-> FALSE]
  ELSE IF Matches(s, i1, <<"i", "n", "f">>)
    THEN [val |-> Infinity(neg), end |-> i1 + 2, erange |-> FALSE]
  ELSE IF Matches(s, i1, <<"n", "a", "n">>)
    THEN [val |-> NaN, end |-> i1 + 2, erange |-> FALSE]
  ELSE StrtodPoint(s, neg, i1, i2,
                   IF At(s, i2) = "." THEN DigitsEnd(s, i2 + 1) ELSE i2)

\* strtod from the optional sign at position i0
StrtodSign(s, i0) ==
  IF At(s, i0) \in {"-", "+"}
    THEN StrtodNumber(s, At(s, i0) = "-", i0 + 1, DigitsEnd(s, i0 + 1))
    ELSE StrtodNumber(s, FALSE, i0, DigitsEnd(s, i0))

\* strtod(str, &end): val is the double returned, end the number of
\* characters consumed, erange whether errno is set to ERANGE.  Decimal
\* grammar and the inf / nan literals; the texts offered hold no
\* hexadecimal floats and at most nine mantissa digits.
strtod(s) == StrtodSign(s, SkipSpace(s, 1))

\* ---- comparison functions ----

\* !p for a handle p
Not(h) == B(h = NULL)

\* NullCmp with the two comparisons exchanged
NullCmpSwapped(h1, h2) == B(Not(h1) > Not(h2)) - B(Not(h1) < Not(h2))

\* (!p1 < !p2) - (!p1 > !p2), the result when at least one handle is NULL
NullCmp(h1, h2) == B(Not(h1) < Not(h2)) - B(Not(h1) > Not(h2))

\* a - b leaves the range of int
SubOverflows(a, b) ==
  \/ b > 0 /\ a < INT_MIN + b
  \/ b < 0 /\ a > INT_MAX + b

\* a - b reduced modulo 2^32 into INT_MIN..INT_MAX
WrapSub(a, b) ==
  IF b > 0 /\ a < INT_MIN + b THEN ((a - INT_MIN) + (INT_MAX - b)) + 1
  ELSE IF b < 0 /\ a > INT_MAX + b THEN ((a - INT_MAX) + (INT_MIN - b)) - 1
  ELSE a - b

\* the values "a - b" on int can produce.  Signed overflow is undefined:
\* the subtraction instruction wraps, while a build that folds the
\* caller's test of the sign under the no-overflow rule behaves as if the
\* difference were exact (here: saturated).
IntSub(a, b) ==
  IF SubOverflows(a, b)
    THEN {WrapSub(a, b), IF a < b THEN INT_MIN ELSE INT_MAX}
    ELSE {a - b}

\* the results of util_char_cmp(h1, h2); a char is its signed code
CharCmp(h1, h2) ==
  IF h1 = NULL \/ h2 = NULL THEN {NullCmp(h1, h2)} ELSE {h1[1] - h2[1]}

\* the results of util_int_cmp(h1, h2)
IntCmp(h1, h2) ==
  IF h1 = NULL \/ h2 = NULL THEN {NullCmp(h1, h2)} ELSE IntSub(h1[1], h2[1])

\* the results of util_double_cmp(h1, h2)
DoubleCmp(h1, h2) ==
  IF h1 = NULL \/ h2 = NULL THEN {NullCmp(h1, h2)}
  ELSE {B(DLess(h2[1], h1[1])) - B(DLess(h1[1], h2[1]))}

\* code of a character as unsigned char
Ord(c) ==
  CASE c = NUL -> 0
    [] c \in Digits -> 48 + DigitVal(c)
    [] c = " " -> 32 [] c = "+" -> 43 [] c = "-" -> 45 [] c = "." -> 46
    [] c = "a" -> 97 [] c = "b" -> 98 [] c = "e" -> 101 [] c = "q" -> 113

\* strcmp(s1, s2): difference of the first pair of bytes that differ
RECURSIVE strcmp(_, _, _)
strcmp(s1, s2, i) ==
  IF At(s1, i) # At(s2, i) THEN Ord(At(s1, i)) - Ord(At(s2, i))
  ELSE IF At(s1, i) = NUL THEN 0
  ELSE strcmp(s1, s2, i + 1)

\* StringCmp that orders strings by their lengths
StringCmpByLength(h1, h2) ==
  IF h1 = NULL \/ h2 = NULL THEN {NullCmp(h1, h2)} ELSE {Len(h1[1]) - Len(h2[1])}

\* the results of util_string_cmp(h1, h2); a handle points to the text
StringCmp(h1, h2) ==
  IF h1 = NULL \/ h2 = NULL THEN {NullCmp(h1, h2)} ELSE {strcmp(h1[1], h2[1], 1)}

\* ---- to-string and from-string functions ----

\* ceil(log10(n)) for n >= 1
RECURSIVE CeilLog10(_)
CeilLog10(n) == IF n <= 1 THEN 0 ELSE 1 + CeilLog10(((n - 1) \div 10) + 1)

MAX_INT_LEN == CeilLog10(INT_MAX)

\* the decimal digits of n <= 0, most significant first (C division
\* truncates toward zero)
RECURSIVE NegDigits(_)
NegDigits(n) ==
  LET r == n % 10
      last == (10 - r) % 10
      rest == (n \div 10) + B(r # 0)
  IN  IF rest = 0 THEN <<DigitChar(last)>>
      ELSE Append(NegDigits(rest), DigitChar(last))

\* the text "%d" formats n to
FormatInt(n) == IF n < 0 THEN <<"-">> \o NegDigits(n) ELSE NegDigits(0 - n)

\* snprintf(str, size, ...): at most size - 1 characters of the formatted
\* text are stored, followed by the terminator
snprintf(size, text) ==
  IF Len(text) <= size - 1 THEN text ELSE SubSeq(text, 1, size - 1)

\* util_int_to_string(h) after a successful malloc: the text stored
IntToString(h) == snprintf(MAX_INT_LEN + 1, FormatInt(h[1]))

\* MAX_DOUB_LEN without the character of the sign
MAX_DOUB_LENUnsigned == ((DBL_DIG + 1) + 2) + CeilLog10(DBL_MAX_10_EXP)

\* MAX_LONG_LEN where long has 32 bits: ceil(log10(2147483647))
MAX_LONG_LEN32 == CeilLog10(INT_MAX)

\* #define MAX_LONG_LEN ((size_t) ceil(log10((double) LONG_MAX))):
\* (double) LONG_MAX is 2^63 = 9223372036854775808, of nineteen digits
MAX_LONG_LEN == 19

MAX_CHAR_LEN == 1

MAX_DOUB_LEN == (((1 + DBL_DIG) + 1) + 2) + CeilLog10(DBL_MAX_10_EXP)

\* the decimal digits of m >= 0
DecDigits(m) == NegDigits(0 - m)

\* n times the character "0"
Zeros(n) == [i \in 1 .. n |-> "0"]

\* the text "%p" formats a non-null pointer to (glibc); a pointer is held
\* as the lowercase hexadecimal digits of its address
FormatPtr(p) == <<"0", "x">> \o p

\* the exponent part of "%g": sign and at least two digits
FormatExp(x) ==
  <<"e", IF x < 0 THEN "-" ELSE "+">>
    \o (IF x > (0 - 10) /\ x < 10 THEN <<"0">> ELSE << >>)
    \o DecDigits(IF x < 0 THEN 0 - x ELSE x)

\* "%g" in exponent style: ds are the significant digits, x the exponent
FormatSci(ds, x) ==
  <<ds[1]>> \o (IF Len(ds) > 1 THEN <<".">> \o SubSeq(ds, 2, Len(ds)) ELSE << >>)
    \o FormatExp(x)

\* "%g" in fixed style: the digits ds scaled by 10^e
FormatFixed(ds, e) ==
  IF e >= 0 THEN ds \o Zeros(e)
  ELSE IF Len(ds) > 0 - e
    THEN SubSeq(ds, 1, Len(ds) + e) \o <<".">> \o SubSeq(ds, Len(ds) + e + 1, Len(ds))
  ELSE <<"0", ".">> \o Zeros((0 - e) - Len(ds)) \o ds

\* the text "%.*g" with precision DBL_DIG formats the magnitude of d to:
\* exponent style when the decimal exponent is below -4 or at least the
\* precision, trailing zeros removed (m holds none)
FormatMagnitude(d) ==
  IF d.cls = "inf" THEN <<"i", "n", "f">>
  ELSE IF d.cls = "nan" THEN <<"n", "a", "n">>
  ELSE IF d.m = 0 THEN <<"0">>
  ELSE IF SciExp(d) < (0 - 4) \/ SciExp(d) >= DBL_DIG
    THEN FormatSci(DecDigits(d.m) \o d.lo, SciExp(d))
  ELSE FormatFixed(DecDigits(d.m) \o d.lo, d.e - Len(d.lo))

\* the text "%.*g" with precision DBL_DIG formats d to
FormatDouble(d) == (IF d.neg THEN <<"-">> ELSE << >>) \o FormatMagnitude(d)

\* strdup that stops at the first space
strdupWord(s) ==
  IF \E i \in 1 .. Len(s) : s[i] = " "
    THEN SubSeq(s, 1, (CHOOSE i \in 1 .. Len(s) :
                         s[i] = " " /\ \A j \in 1 .. (i - 1) : s[j] # " ") - 1)
    ELSE s

\* strdup(s): the text of the new block, a copy of every byte up to the
\* terminator
strdup(s) == s

\* ToStringText that copies a string into a buffer of a char
ToStringTextShort(kind, v) ==
  CASE kind = "generic" -> snprintf(MAX_LONG_LEN + 1, FormatPtr(v))
    [] kind = "char" -> IF v = NUL THEN << >> ELSE <<v>>
    [] kind = "int" -> IntToString(Ptr(v))
    [] kind = "double" -> snprintf(MAX_DOUB_LEN + 1, FormatDouble(v))
    [] kind = "string" -> snprintf(MAX_CHAR_LEN + 1, v)

\* the text a to-string function stores for the value v behind a handle;
\* a char is held as its byte, and str[0] = NUL ends the text at once
ToStringText(kind, v) ==
  CASE kind = "generic" -> snprintf(MAX_LONG_LEN + 1, FormatPtr(v))
    [] kind = "char" -> IF v = NUL THEN << >> ELSE <<v>>
    [] kind = "int" -> IntToString(Ptr(v))
    [] kind = "double" -> snprintf(MAX_DOUB_LEN + 1, FormatDouble(v))
    [] kind = "string" -> strdup(v)

\* errno after the allocation of a to-string function failed: check_mem
\* clears it, strdup leaves the ENOMEM of malloc
ToStringErrno(kind) == IF kind = "string" THEN ENOMEM ELSE 0

\* the bytes fprintf writes for the value v behind a handle
WrittenValue(kind, v) ==
  CASE kind = "generic" -> FormatPtr(v) \o <<" ">>
    [] kind = "char" -> <<v, " ">>
    [] kind = "int" -> FormatInt(v) \o <<" ">>
    [] kind = "double" -> FormatDouble(v)
    [] kind = "string" -> v \o <<" ">>

\* #define DEF_NULL "null"
DEF_NULL == <<"n", "u", "l", "l">>

\* Written without the separator after DEF_NULL
WrittenBareNull(kind, h) ==
  IF h = NULL THEN DEF_NULL ELSE WrittenValue(kind, h[1])

\* the bytes a print function writes for the handle h
Written(kind, h) ==
  IF h = NULL THEN DEF_NULL \o <<" ">> ELSE WrittenValue(kind, h[1])

\* the failure exit of a from-string function: check() has set errno = 0,
\* the block is freed and NULL returned
Failed == [val |-> NULL, errno |-> 0]

\* IntChecked without the test "end != str"
IntCheckedNoEnd(p, e) ==
  IF ~(e # 0) THEN Failed
  ELSE [val |-> Ptr(LongToInt(p.val)), errno |-> e]

\* util_int_from_string from its first check on: p is what strtol
\* returned, e the value of errno.  check(A, ...) is
\* "if (!(A)) { errno = 0; goto error; }".
IntChecked(p, e) ==
  IF ~(e # 0) THEN Failed
  ELSE IF ~(p.end # 0) THEN Failed
  ELSE [val |-> Ptr(LongToInt(p.val)), errno |-> e]

\* util_int_from_string(str) entered with errno = e; ok tells whether
\* malloc succeeded.  val is NULL or points to the int stored, errno is
\* the value on return.
IntFromString(str, e, ok) ==
  IF ~ok THEN Failed
  ELSE IF \/ LongLess(IntToLong(INT_MAX), strtol(str).val)
          \/ LongLess(strtol(str).val, IntToLong(INT_MAX))
         THEN IntChecked(strtol(str), ERANGE)
         ELSE IntChecked(strtol(str), IF strtol(str).erange THEN ERANGE ELSE e)

\* util_double_from_string from its first check on
DoubleChecked(p, e) ==
  IF ~(e # 0) THEN Failed
  ELSE IF ~(p.end # 0) THEN Failed
  ELSE [val |-> Ptr(p.val), errno |-> e]

\* util_double_from_string(str) entered with errno = e
DoubleFromString(str, e, ok) ==
  IF ~ok THEN Failed
  ELSE DoubleChecked(strtod(str), IF strtod(str).erange THEN ERANGE ELSE e)

\* ---- state ----

VARIABLES
  errno,  \* the calling thread's errno
  heap,   \* live malloc blocks: address -> [val, by]; by names the
          \* function that allocated the block
  pool,   \* the operands the caller holds: [kind, v], v a tuple
  obs,    \* what the caller has seen: results of the calls made so far
  fn,     \* name of the function called last ("" before the first call)
  arg,    \* its arguments
  ret,    \* its return value
  oom,    \* whether malloc returned NULL during that call
  stream, \* the FILE pointer the caller holds: NULL, or a pointer to the
          \* bytes written to the stream so far
  aborted, \* whether a failed assert has ended the process (SIGABRT)
  mem,    \* the allocator calls made during that call, in order: [op, at],
          \* at the pointer malloc or strdup returned or free was given
  loop    \* the loop statement a macro expanded to, while the caller runs
          \* it: its position pc and its variables

vars == <<errno, heap, pool, obs, fn, arg, ret, oom, stream, aborted, mem, loop>>

\* ---- inputs ----

GenAlphabet == {"1", "-", "q", ".", "e"}

\* all texts over GenAlphabet of length at most n
RECURSIVE GenTexts(_)
GenTexts(n) ==
  IF n = 0 THEN {<< >>}
  ELSE LET shorter == GenTexts(n - 1)
       IN  shorter \cup {Append(t, c) : t \in shorter, c \in GenAlphabet}

\* texts of the test suites and of the limits of int and double
SuiteTexts ==
  { <<"1", "2", "3", "4", "5">>,
    <<"1", "2", "3", "4", "5", "q", "w", "e", "r", "t", "y">>,
    <<"1", "2", "3", "q", "w", "e", "r", "t", "y", "4", "5">>,
    <<"q", "w", "e", "r", "t", "y", "1", "2", "3", "4", "5">>,
    <<"2", "1", "4", "7", "4", "8", "3", "6", "4", "7">>,
    <<"2", "1", "4", "7", "4", "8", "3", "6", "4", "8">>,
    <<"-", "2", "1", "4", "7", "4", "8", "3", "6", "4", "8">>,
    <<"-", "2", "1", "4", "7", "4", "8", "3", "6", "4", "9">>,
    <<"2", "1", "4", "7", "4", "8", "3", "6", "4", "7", "q">>,
    <<"9", "9", "9", "9", "9", "9", "9", "9", "9", "9", "9">>,
    <<" ", "4", "2">>,
    <<"+", "7">>,
    <<"-", "0">>,
    <<"1", "2", "3", "4", ".", "5", "6", "7", "n", "b", "v">>,
    <<"-", "1", "2", "3", ".", "4", "n", "b", "0", "9", ".", "8">>,
    <<"n", "b", "v", "1", "2", "3", "4", ".", "8", "7">>,
    <<"3", "4", "e", "+", "1", "0", "2", "4">>,
    <<"3", "4", "e", "-", "1", "0", "2", "4">>,
    <<"-", "3", "4", "e", "+", "1", "0", "2", "4">>,
    <<"1", ".", "8", "e", "3", "0", "8">>,
    <<"1", ".", "7", "9", "e", "3", "0", "8">>,
    <<"2", ".", "2", "2", "e", "-", "3", "0", "8">>,
    <<"1", "e", "-", "3">>,
    <<"I", "N", "F">>,
    <<"N", "A", "N">>,
    <<"-", "i", "n", "f", "i", "n", "i", "t", "y">> }

Texts == SuiteTexts \cup GenTexts(MaxLen)

\* number of mantissa digits of the number text s starts with
MantissaDigits(s) ==
  LET i0 == SkipSpace(s, 1)
      i1 == IF At(s, i0) \in {"-", "+"} THEN i0 + 1 ELSE i0
      i2 == DigitsEnd(s, i1)
      i3 == IF At(s, i2) = "." THEN DigitsEnd(s, i2 + 1) ELSE i2
  IN  (i2 - i1) + (IF At(s, i2) = "." THEN i3 - (i2 + 1) ELSE 0)

\* the mantissa of a double of the model holds nine digits
DoubleText(s) == MantissaDigits(s) <= 9

IntValues == {INT_MIN, 0 - 1000000000, 0 - 1, 0, 1, 12345, INT_MAX}

CmpIntValues == {INT_MIN, 0 - 1, 0, 1, INT_MAX}

CmpCharValues == {CHAR_MIN, 0, 88, 89, CHAR_MAX}

CmpDoubleValues ==
  { NaN, Infinity(TRUE), Infinity(FALSE), Decimal(TRUE, 0, 0), Decimal(FALSE, 0, 0),
    Decimal(FALSE, 15, 0 - 1), Decimal(TRUE, 179769313, 300),
    Decimal(FALSE, 179769313, 300) }

CmpStringValues ==
  { << >>, <<"1">>, <<"a", "a">>, <<"a", "a", "a">>, <<"a", "a", "b">> }

\* a generic pointer is held as the hexadecimal digits of its address
GenericValues ==
  { <<"1">>,
    <<"7", "f", "f", "d", "1", "2", "3", "4", "5", "6", "7", "8">>,
    <<"f", "f", "f", "f", "f", "f", "f", "f", "f", "f", "f", "f", "f", "f", "f", "f">> }

\* chars as bytes
CharValues == {NUL, "a", "1", " "}

DoubleValues ==
  { NaN, Infinity(TRUE), Infinity(FALSE), Decimal(TRUE, 0, 0), Decimal(FALSE, 0, 0),
    Decimal(FALSE, 15, 0 - 1), Decimal(TRUE, 12345, 0 - 9), Decimal(FALSE, 1, 15),
    Decimal(FALSE, 123456789, 6), Decimal(TRUE, 179769313, 300),
    Wide(Decimal(TRUE, 179769313, 300), <<"4", "8", "6", "2", "3", "2">>),
    Wide(Decimal(TRUE, 123456789, 0 - 12), <<"0", "1", "2", "3", "4", "5">>) }

StringValues ==
  { << >>, <<"a">>, <<"a", " ", "b">>, <<"n", "u", "l", "l">>,
    <<"1", "2", "3", "4", "5", " ", "q", "w", "e", "r", "t", "y">> }

\* the handles over a set of values: NULL and a pointer to each value
Handles(V) == {NULL} \cup {Ptr(v) : v \in V}

\* ---- heap ----

EmptyHeap == [a \in {} |-> NULL]

Addrs == 1 .. MaxBlocks

FreeAddrs == Addrs \ DOMAIN heap

\* NewAddr of a malloc that hands out its first block again
NewAddrFirst == CHOOSE a \in Addrs : \A b \in Addrs : a <= b

\* the address malloc returns when it succeeds
NewAddr == CHOOSE a \in FreeAddrs : \A b \in FreeAddrs : a <= b

\* the blocks strdup hands out are counted apart from those of malloc:
\* at most MaxBlocks of each are live
StrAddrs == (MaxBlocks + 1) .. (2 * MaxBlocks)

FreeStrAddrs == StrAddrs \ DOMAIN heap

\* the address strdup returns when it succeeds
NewStrAddr == CHOOSE a \in FreeStrAddrs : \A b \in FreeStrAddrs : a <= b

\* the heap after free(a)
Release(h, a) == [q \in DOMAIN h \ {a} |-> h[q]]

\* one allocator call: malloc or strdup that returned the pointer at, or
\* free that was given it
MemCall(op, at) == [op |-> op, at |-> at]

\* the addresses live after the allocator calls of log, those of S being
\* live before: free(NULL) does nothing and a failed malloc adds nothing
RECURSIVE Live(_, _)
Live(S, log) ==
  IF log = << >> THEN S
  ELSE Live(IF Head(log).at = NULL THEN S
            ELSE IF Head(log).op = "free" THEN S \ {Head(log).at[1]}
            ELSE S \cup {Head(log).at[1]},
            Tail(log))

\* the heap after a call that made the allocator calls of log and stored
\* blk[a] in each block a it allocated and kept
Settle(h, log, blk) ==
  [a \in Live(DOMAIN h, log) |-> IF a \in DOMAIN h THEN h[a] ELSE blk[a]]

\* the value behind a handle returned by a conversion: NULL, or a pointer
\* to the value stored in the block
Outcome(h, r) == IF r = NULL THEN NULL ELSE Ptr(h[r[1]].val)

\* the string behind a handle returned by util_string_from_string: the
\* block holds the address of the duplicated text
StrOutcome(h, r) == IF r = NULL THEN NULL ELSE Ptr(h[h[r[1]].val].val)

\* ---- initial states ----

\* conversions: the caller holds one text or one int handle
Init ==
  /\ errno = 0
  /\ heap = EmptyHeap
  /\ \/ pool \in {[kind |-> "text", v |-> <<t>>] : t \in Texts}
     \/ pool \in {[kind |-> "int", v |-> <<h>>] : h \in Handles(IntValues)}
  /\ obs = << >>
  /\ fn = ""
  /\ arg = << >>
  /\ ret = NULL
  /\ oom = FALSE
  /\ stream = NULL
  /\ aborted = FALSE
  /\ mem = << >>
  /\ loop = [pc |-> "idle"]

\* comparisons: the caller holds three handles of one kind
InitCmp ==
  /\ errno = 0
  /\ heap = EmptyHeap
  /\ \/ pool \in {[kind |-> "char", v |-> <<a, b, c>>] : a, b, c \in Handles(CmpCharValues)}
     \/ pool \in {[kind |-> "int", v |-> <<a, b, c>>] : a, b, c \in Handles(CmpIntValues)}
     \/ pool \in {[kind |-> "double", v |-> <<a, b, c>>] : a, b, c \in Handles(CmpDoubleValues)}
     \/ pool \in {[kind |-> "string", v |-> <<a, b, c>>] : a, b, c \in Handles(CmpStringValues)}
  /\ obs = << >>
  /\ fn = ""
  /\ arg = << >>
  /\ ret = NULL
  /\ oom = FALSE
  /\ stream = NULL
  /\ aborted = FALSE
  /\ mem = << >>
  /\ loop = [pc |-> "idle"]

\* the caller holds one handle of a kind
HoldsHandle ==
  \/ pool \in {[kind |-> "generic", v |-> <<h>>] : h \in Handles(GenericValues)}
  \/ pool \in {[kind |-> "char", v |-> <<h>>] : h \in Handles(CharValues)}
  \/ pool \in {[kind |-> "int", v |-> <<h>>] : h \in Handles(IntValues)}
  \/ pool \in {[kind |-> "double", v |-> <<h>>] : h \in Handles(DoubleValues)}
  \/ pool \in {[kind |-> "string", v |-> <<h>>] : h \in Handles(StringValues)}

\* output: the caller holds one handle and a stream, open and empty, or
\* NULL
InitOut ==
  /\ errno = 0
  /\ heap = EmptyHeap
  /\ HoldsHandle
  /\ obs = << >>
  /\ fn = ""
  /\ arg = << >>
  /\ ret = NULL
  /\ oom = FALSE
  /\ stream \in {NULL, Ptr(<< >>)}
  /\ aborted = FALSE
  /\ mem = << >>
  /\ loop = [pc |-> "idle"]

\* strings: the caller holds one handle
InitStr ==
  /\ errno = 0
  /\ heap = EmptyHeap
  /\ HoldsHandle
  /\ obs = << >>
  /\ fn = ""
  /\ arg = << >>
  /\ ret = NULL
  /\ oom = FALSE
  /\ stream = NULL
  /\ aborted = FALSE
  /\ mem = << >>
  /\ loop = [pc |-> "idle"]

\* ownership: the caller holds one present handle of a kind
InitOwn ==
  /\ InitStr
  /\ \/ pool.kind = "generic" /\ pool.v[1] = Ptr(<<"1">>)
     \/ pool.kind = "char" /\ pool.v[1] = Ptr("a")
     \/ pool.kind = "int" /\ pool.v[1] = Ptr(12345)
     \/ pool.kind = "double" /\ pool.v[1] = Ptr(Decimal(FALSE, 15, 0 - 1))
     \/ pool.kind = "string" /\ pool.v[1] = Ptr(<<"a", " ", "b">>)

\* ---- comparison calls ----

\* the pairs of operands (positions in pool.v) the caller compares
CmpPairs == {<<1, 1>>, <<1, 2>>, <<2, 1>>, <<2, 3>>, <<1, 3>>}

\* the results of the comparison function of a kind
Cmp(kind, h1, h2) ==
  CASE kind = "char" -> CharCmp(h1, h2)
    [] kind = "int" -> IntCmp(h1, h2)
    [] kind = "double" -> DoubleCmp(h1, h2)
    [] kind = "string" -> StringCmp(h1, h2)

\* CmpCall that clears errno
CmpCallClearsErrno(kind, name) ==
  /\ ~aborted
  /\ pool.kind = kind
  /\ \E pr \in {q \in CmpPairs : {q[1], q[2]} \subseteq DOMAIN pool.v} \ DOMAIN obs :
       \E r \in Cmp(kind, pool.v[pr[1]], pool.v[pr[2]]) :
         /\ fn' = name
         /\ arg' = <<pool.v[pr[1]], pool.v[pr[2]]>>
         /\ ret' = r
         /\ obs' = [q \in DOMAIN obs \cup {pr} |-> IF q = pr THEN r ELSE obs[q]]
  /\ oom' = FALSE
  /\ mem' = << >>
  /\ errno' = 0
  /\ UNCHANGED <<heap, pool, stream, aborted, loop>>

\* one call name(pool.v[i], pool.v[j]) of the comparison function of a
\* kind, on handles the caller holds; obs holds at <<i, j>> the value
\* returned
CmpCall(kind, name) ==
  /\ ~aborted
  /\ pool.kind = kind
  /\ \E pr \in {q \in CmpPairs : {q[1], q[2]} \subseteq DOMAIN pool.v} \ DOMAIN obs :
       \E r \in Cmp(kind, pool.v[pr[1]], pool.v[pr[2]]) :
         /\ fn' = name
         /\ arg' = <<pool.v[pr[1]], pool.v[pr[2]]>>
         /\ ret' = r
         /\ obs' = [q \in DOMAIN obs \cup {pr} |-> IF q = pr THEN r ELSE obs[q]]
  /\ oom' = FALSE
  /\ mem' = << >>
  /\ UNCHANGED <<errno, heap, pool, stream, aborted, loop>>

util_char_cmp == CmpCall("char", "util_char_cmp")

util_int_cmp == CmpCall("int", "util_int_cmp")

util_double_cmp == CmpCall("double", "util_double_cmp")

util_string_cmp == CmpCall("string", "util_string_cmp")

\* ---- conversion calls ----

\* the literal of test_int_from_string
SampleText == <<"1", "2", "3", "4", "5">>

\* texts the caller can pass to the from-string function called name: the
\* text it holds, with it a literal, the string behind the handle it
\* holds and, to parse a number back, the texts returned by earlier
\* util_int_to_string calls
ArgTexts(name) ==
  (IF pool.kind = "text" THEN {SampleText, pool.v[1]} ELSE {})
    \cup (IF pool.kind = "string" /\ pool.v[1] # NULL THEN {pool.v[1][1]} ELSE {})
    \cup (IF name \in {"util_int_from_string", "util_double_from_string"}
            THEN {heap[a].val :
                    a \in {b \in DOMAIN heap : heap[b].by = "util_int_to_string"}}
            ELSE {})

\* the pointers the caller can pass as text: a pointer to each text, and
\* the NULL pointer when that is what it holds
ArgStrs(name) ==
  {Ptr(t) : t \in ArgTexts(name)}
    \cup (IF pool.kind # "text" /\ pool.v[1] = NULL THEN {NULL} ELSE {})

\* the first result seen for each from-string function on the text the
\* caller holds
Observe(name, str, ok, val) ==
  IF ok /\ pool.kind = "text" /\ str = pool.v[1] /\ <<name, str>> \notin DOMAIN obs
    THEN [q \in DOMAIN obs \cup {<<name, str>>} |->
            IF q = <<name, str>> THEN val ELSE obs[q]]
    ELSE obs

\* AssertFail of a build that defines NDEBUG and returns NULL
AssertFailReturns ==
  /\ aborted' = FALSE
  /\ ret' = NULL
  /\ oom' = FALSE
  /\ mem' = << >>
  /\ UNCHANGED <<errno, heap, pool, obs, stream, loop>>

\* assert(p) with p NULL: abort() raises SIGABRT and the call does not
\* return
AssertFail ==
  /\ aborted' = TRUE
  /\ ret' = NULL
  /\ oom' = FALSE
  /\ mem' = << >>
  /\ UNCHANGED <<errno, heap, pool, obs, stream, loop>>

\* CharFromString that reads the byte after the first
CharFromStringSecond(str, e, ok) ==
  IF ~ok THEN Failed ELSE [val |-> Ptr(At(str, 2)), errno |-> e]

\* util_char_from_string(str) entered with errno = e: *c = *str
CharFromString(str, e, ok) ==
  IF ~ok THEN Failed ELSE [val |-> Ptr(At(str, 1)), errno |-> e]

\* the body of the from-string function called name
FromString(name, str, e, ok) ==
  CASE name = "util_char_from_string" -> CharFromString(str, e, ok)
    [] name = "util_int_from_string" -> IntFromString(str, e, ok)
    [] name = "util_double_from_string" -> DoubleFromString(str, e, ok)

\* the allocator calls of the from-string function called name: malloc
\* returned p, and the error label of the int and double functions frees p
\* (that of util_char_from_string only returns)
FromStringMem(name, p, failed) ==
  <<MemCall("malloc", p)>>
    \o (IF failed /\ name # "util_char_from_string"
          THEN <<MemCall("free", p)>> ELSE << >>)

\* one call name(s) of a from-string function that allocates one block
FromStringCall(name, s) ==
  /\ ~aborted
  /\ fn' = name
  /\ arg' = [str |-> s, errno |-> errno]
  /\ IF s = NULL
       THEN AssertFail
       ELSE /\ \E ok \in BOOLEAN :
                 /\ ok => FreeAddrs # {}
                 /\ \E out \in {FromString(name, s[1], errno, ok)} :
                      /\ errno' = out.errno
                      /\ mem' = FromStringMem(name,
                                              IF ok THEN Ptr(NewAddr) ELSE NULL,
                                              out.val = NULL)
                      /\ heap' = Settle(heap, mem',
                                        [q \in Addrs |->
                                           [val |-> out.val[1], by |-> name]])
                      /\ ret' = IF out.val = NULL THEN NULL ELSE Ptr(NewAddr)
                      /\ obs' = Observe(name, s[1], ok, out.val)
                 /\ oom' = ~ok
            /\ UNCHANGED <<pool, stream, aborted, loop>>

util_char_from_string ==
  \E s \in ArgStrs("util_char_from_string") :
    FromStringCall("util_char_from_string", s)

util_int_from_string ==
  \E s \in ArgStrs("util_int_from_string") :
    FromStringCall("util_int_from_string", s)

util_double_from_string ==
  \E s \in {t \in ArgStrs("util_double_from_string") :
               t = NULL \/ DoubleText(t[1])} :
    FromStringCall("util_double_from_string", s)

\* StringFromStringMem whose error label frees the string only
StringFromStringMemLeak(p, s) ==
  <<MemCall("malloc", p)>>
    \o (IF p = NULL THEN << >> ELSE <<MemCall("strdup", s)>>)
    \o (IF s = NULL THEN <<MemCall("free", s)>> ELSE << >>)

\* the allocator calls of util_string_from_string: malloc returned p;
\* with p present strdup returned s; with either NULL the error label runs
\* free(s) and free(p)
StringFromStringMem(p, s) ==
  <<MemCall("malloc", p)>>
    \o (IF p = NULL THEN << >> ELSE <<MemCall("strdup", s)>>)
    \o (IF s = NULL THEN <<MemCall("free", s), MemCall("free", p)>> ELSE << >>)

\* util_string_from_string(s): malloc of the container, then strdup; okp
\* and oks tell whether each succeeded
util_string_from_string ==
  /\ ~aborted
  /\ fn' = "util_string_from_string"
  /\ \E s \in ArgStrs("util_string_from_string") :
       /\ arg' = [str |-> s, errno |-> errno]
       /\ IF s = NULL
         THEN AssertFail
         ELSE /\ \E okp \in BOOLEAN : \E oks \in (IF okp THEN BOOLEAN ELSE {FALSE}) :
                   /\ okp => FreeAddrs # {}
                   /\ oks => FreeStrAddrs # {}
                   /\ oom' = ~oks
                   /\ mem' = StringFromStringMem(
                                IF okp THEN Ptr(NewAddr) ELSE NULL,
                                IF oks THEN Ptr(NewStrAddr) ELSE NULL)
                   /\ heap' = Settle(heap, mem',
                                     [q \in Addrs \cup StrAddrs |->
                                        IF q \in StrAddrs
                                          THEN [val |-> strdup(s[1]), by |-> "strdup"]
                                          ELSE [val |-> NewStrAddr,
                                                by |-> "util_string_from_string"]])
                   /\ ret' = IF oks THEN Ptr(NewAddr) ELSE NULL
                   /\ errno' = IF oks THEN errno ELSE 0
              /\ UNCHANGED <<pool, obs, stream, aborted, loop>>

\* the live handles util_string_from_string returned, with the string
\* each points to
StringResults ==
  {[h |-> Ptr(heap[heap[a].val].val), at |-> a] :
     a \in {b \in DOMAIN heap : /\ heap[b].by = "util_string_from_string"
                                /\ heap[b].val \in DOMAIN heap}}

\* the handles the caller can pass to the to-string function of a kind:
\* the handle it holds and NULL (at 0) and, for strings, the handles
\* returned to it
ToStringArgs(kind) ==
  (IF pool.kind = kind THEN {[h |-> pool.v[1], at |-> 0], [h |-> NULL, at |-> 0]}
                       ELSE {})
    \cup (IF kind = "string" THEN StringResults ELSE {})

\* ToStringResult with DEF_NULL for the NULL handle
ToStringResultDefNull(kind, h) ==
  IF h = NULL THEN Ptr(DEF_NULL) ELSE Ptr(ToStringText(kind, h[1]))

\* what the to-string function of a kind is to return for the handle h:
\* NULL at once for NULL, else the text to be stored in a new block
ToStringResult(kind, h) ==
  IF h = NULL THEN NULL ELSE Ptr(ToStringText(kind, h[1]))

\* one call name(a.h) of the to-string function of a kind
ToStringCall(kind, name) ==
  /\ ~aborted
  /\ \E a \in ToStringArgs(kind) : \E out \in {ToStringResult(kind, a.h)} :
       /\ fn' = name
       /\ arg' = a
       /\ IF out = NULL
            THEN /\ ret' = NULL
                 /\ oom' = FALSE
                 /\ mem' = << >>
                 /\ UNCHANGED <<errno, heap>>
            ELSE \E ok \in BOOLEAN :
                   /\ ok => (IF kind = "string" THEN FreeStrAddrs ELSE FreeAddrs) # {}
                   /\ oom' = ~ok
                   /\ ret' = IF ~ok THEN NULL
                             ELSE Ptr(IF kind = "string" THEN NewStrAddr ELSE NewAddr)
                   /\ mem' = <<MemCall(IF kind = "string" THEN "strdup" ELSE "malloc",
                                       ret')>>
                   /\ heap' = Settle(heap, mem',
                                     [q \in Addrs \cup StrAddrs |->
                                        [val |-> out[1], by |-> name]])
                   /\ errno' = IF ok THEN errno ELSE ToStringErrno(kind)
  /\ UNCHANGED <<pool, obs, stream, aborted, loop>>

util_generic_to_string == ToStringCall("generic", "util_generic_to_string")

util_char_to_string == ToStringCall("char", "util_char_to_string")

util_int_to_string == ToStringCall("int", "util_int_to_string")

util_double_to_string == ToStringCall("double", "util_double_to_string")

util_string_to_string == ToStringCall("string", "util_string_to_string")

\* the caller releases a block it was given: free(ptr)
Free ==
  /\ ~aborted
  /\ \E a \in DOMAIN heap :
       /\ heap' = Release(heap, a)
       /\ arg' = Ptr(a)
       /\ mem' = <<MemCall("free", Ptr(a))>>
  /\ fn' = "free"
  /\ ret' = NULL
  /\ oom' = FALSE
  /\ UNCHANGED <<errno, pool, obs, stream, aborted, loop>>

\* StringFreeMem that releases the container only
StringFreeMemContainerOnly(h, str) ==
  IF str = NULL THEN << >> ELSE <<MemCall("free", str)>>

\* the allocator calls of util_string_free(str): nothing for NULL, else
\* free of the string *str and then of the container str
StringFreeMem(h, str) ==
  IF str = NULL THEN << >>
  ELSE <<MemCall("free", Ptr(h[str[1]].val)), MemCall("free", str)>>

\* util_string_free(str), on a handle util_string_from_string returned
\* that the caller still holds whole, or on NULL
util_string_free ==
  /\ ~aborted
  /\ \E str \in {Ptr(r.at) : r \in StringResults} \cup {NULL} :
       /\ arg' = [str |-> str]
       /\ mem' = StringFreeMem(heap, str)
       /\ heap' = Settle(heap, mem', heap)
  /\ fn' = "util_string_free"
  /\ ret' = NULL
  /\ oom' = FALSE
  /\ UNCHANGED <<errno, pool, obs, stream, aborted, loop>>

\* ---- output calls ----

\* the number of print calls that have returned
Printed == Cardinality({q \in DOMAIN obs : q[1] = 0})

\* one call name(stream, h) of the print function of a kind, on the handle
\* the caller holds or on NULL; obs holds at <<0, k>> the value the k-th
\* print call returned
OutCall(kind, name) ==
  /\ ~aborted
  /\ pool.kind = kind
  /\ fn' = name
  /\ \E h \in {pool.v[1], NULL} :
       /\ arg' = [f |-> stream, h |-> h]
       /\ IF stream = NULL
         THEN AssertFail
         ELSE /\ Printed < MaxPrints
              /\ stream' = Ptr(stream[1] \o Written(kind, h))
              /\ ret' = Len(Written(kind, h))
              /\ obs' = [q \in DOMAIN obs \cup {<<0, Printed + 1>>} |->
                           IF q = <<0, Printed + 1>> THEN Len(Written(kind, h))
                                                     ELSE obs[q]]
              /\ oom' = FALSE
              /\ mem' = << >>
              /\ UNCHANGED <<errno, heap, pool, aborted, loop>>

util_generic_print == OutCall("generic", "util_generic_print")

util_char_print == OutCall("char", "util_char_print")

util_int_print == OutCall("int", "util_int_print")

util_double_print == OutCall("double", "util_double_print")

util_string_print == OutCall("string", "util_string_print")

\* ---- macros ----

\* ints a caller gives to COMPARE and SIGN
MacroInts == {(-INT_MAX) - 1, -1, 0, 1, INT_MAX}

\* bounds a caller gives to RANGE; i stays clear of INT_MAX and INT_MIN
RangeInts == (-MaxRange) .. MaxRange

\* arrays a caller gives to FOR_EACH, by their elements
Arrays == {<< >>, <<7>>, <<7, 7>>, <<1, 2, 3>>}

\* the caller's scope: it has declared an int named X, or no such name
InitMacro ==
  /\ errno = 0
  /\ heap = EmptyHeap
  /\ pool \in {[kind |-> "scope", v |-> <<X>>] : X \in Handles(MacroInts)}
  /\ obs = << >>
  /\ fn = ""
  /\ arg = << >>
  /\ ret = 0
  /\ oom = FALSE
  /\ stream = NULL
  /\ aborted = FALSE
  /\ mem = << >>
  /\ loop = [pc |-> "idle"]

\* #define COMPARE(x, y) (((x) > (y)) - ((x) < (y)))
COMPARE(x, y) == B(x > y) - B(x < y)

\* the caller evaluates COMPARE(x, y) on two ints
CompareCall ==
  /\ loop.pc \in {"idle", "done"}
  /\ \E x, y \in MacroInts :
       /\ fn' = "COMPARE"
       /\ arg' = <<x, y>>
       /\ ret' = COMPARE(x, y)
  /\ UNCHANGED <<errno, heap, pool, obs, oom, stream, aborted, mem, loop>>

\* #define SIGN(x) COMPARE(X, 0): the body names X, which is not the
\* parameter x, so the expansion reads the variable X of the scope where
\* the macro is used and is translated only where there is one
SIGN(x, scope) == COMPARE(scope[1][1], 0)

\* the caller evaluates SIGN(x) on an int, in a scope that has an X
SignCall ==
  /\ loop.pc \in {"idle", "done"}
  /\ pool.v[1] # NULL
  /\ \E x \in MacroInts :
       /\ fn' = "SIGN"
       /\ arg' = <<x>>
       /\ ret' = SIGN(x, pool.v)
  /\ UNCHANGED <<errno, heap, pool, obs, oom, stream, aborted, mem, loop>>

\* the condition of the for statement of RANGE(i, start, end):
\* ((end) >= (start)) ? (i <= (end)) : (i >= (end))
RangeCond(i, start, end) == IF end >= start THEN i <= end ELSE i >= end

\* for (i = (start); ...: the caller reaches a RANGE(i, start, end) whose
\* body ends normally and leaves i, start and end alone; obs lists the
\* values of i the body has run with
RangeEnter ==
  /\ loop.pc \in {"idle", "done"}
  /\ \E start, end \in RangeInts :
       /\ arg' = [start |-> start, end |-> end]
       /\ loop' = [pc |-> "RANGE", i |-> start]
  /\ fn' = "RANGE"
  /\ obs' = << >>
  /\ UNCHANGED <<errno, heap, pool, ret, oom, stream, aborted, mem>>

\* the condition holds: the body runs, then
\* ((end) >= (start)) ? ((i)++) : ((i)--)
RangeIterate ==
  /\ loop.pc = "RANGE"
  /\ RangeCond(loop.i, arg.start, arg.end)
  /\ obs' = Append(obs, loop.i)
  /\ loop' = [loop EXCEPT !.i = IF arg.end >= arg.start THEN @ + 1 ELSE @ - 1]
  /\ UNCHANGED <<errno, heap, pool, fn, arg, ret, oom, stream, aborted, mem>>

\* the condition fails: the for statement ends
RangeExit ==
  /\ loop.pc = "RANGE"
  /\ ~RangeCond(loop.i, arg.start, arg.end)
  /\ loop' = [loop EXCEPT !.pc = "done"]
  /\ UNCHANGED <<errno, heap, pool, obs, fn, arg, ret, oom, stream, aborted, mem>>

\* for (int _keep = 1, _count = 0, _size = sizeof(A) / sizeof *(A); ...:
\* the caller reaches a FOR_EACH(i, A) whose body ends normally; obs lists
\* the offsets from A that i has pointed to in the body
ForEachEnter ==
  /\ loop.pc \in {"idle", "done"}
  /\ \E A \in Arrays :
       /\ arg' = [A |-> A]
       /\ loop' = [pc |-> "FOR_EACH", keep |-> 1, count |-> 0, size |-> Len(A)]
  /\ fn' = "FOR_EACH"
  /\ obs' = << >>
  /\ UNCHANGED <<errno, heap, pool, ret, oom, stream, aborted, mem>>

\* ForEachIterate whose outer for statement does not set _keep again
ForEachIterateKeepOff ==
  /\ loop.pc = "FOR_EACH"
  /\ loop.keep # 0 /\ loop.count # loop.size
  /\ obs' = Append(obs, loop.count)
  /\ loop' = [loop EXCEPT !.keep = B(@ = 0), !.count = @ + 1]
  /\ UNCHANGED <<errno, heap, pool, fn, arg, ret, oom, stream, aborted, mem>>

\* _keep && _count != _size holds: the inner for statement sets
\* i = (A) + _count, runs the body once as _keep holds, and ends on
\* _keep = !_keep; the outer one then does _keep = !_keep, _count++
ForEachIterate ==
  /\ loop.pc = "FOR_EACH"
  /\ loop.keep # 0 /\ loop.count # loop.size
  /\ obs' = Append(obs, loop.count)
  /\ loop' = [loop EXCEPT !.keep = B(B(@ = 0) = 0), !.count = @ + 1]
  /\ UNCHANGED <<errno, heap, pool, fn, arg, ret, oom, stream, aborted, mem>>

\* _keep && _count != _size fails: the outer for statement ends
ForEachExit ==
  /\ loop.pc = "FOR_EACH"
  /\ ~(loop.keep # 0 /\ loop.count # loop.size)
  /\ loop' = [loop EXCEPT !.pc = "done"]
  /\ UNCHANGED <<errno, heap, pool, obs, fn, arg, ret, oom, stream, aborted, mem>>

\* ---- specifications ----

Next ==
  \/ util_int_from_string
  \/ util_double_from_string
  \/ util_int_to_string
  \/ Free

Spec == Init /\ [][Next]_vars

NextCmp ==
  \/ util_char_cmp
  \/ util_int_cmp
  \/ util_double_cmp
  \/ util_string_cmp

SpecCmp == InitCmp /\ [][NextCmp]_vars

\* the caller of the output functions also compares the handle it holds
\* with itself (a char is held as its byte here and as its code where
\* chars are compared, so util_char_cmp is left to SpecCmp)
NextOut ==
  \/ util_generic_print
  \/ util_char_print
  \/ util_int_print
  \/ util_double_print
  \/ util_string_print
  \/ util_int_cmp
  \/ util_double_cmp
  \/ util_string_cmp
  \/ util_char_from_string
  \/ util_int_from_string
  \/ util_double_from_string
  \/ util_string_from_string

SpecOut == InitOut /\ [][NextOut]_vars

NextStr ==
  \/ util_generic_to_string
  \/ util_char_to_string
  \/ util_int_to_string
  \/ util_double_to_string
  \/ util_string_to_string
  \/ util_char_from_string
  \/ util_string_from_string
  \/ util_string_free
  \/ Free

SpecStr == InitStr /\ [][NextStr]_vars

NextOwn ==
  \/ NextStr
  \/ util_int_from_string
  \/ util_double_from_string

SpecOwn == InitOwn /\ [][NextOwn]_vars

NextMacro ==
  \/ CompareCall
  \/ SignCall
  \/ RangeEnter
  \/ RangeIterate
  \/ RangeExit
  \/ ForEachEnter
  \/ ForEachIterate
  \/ ForEachExit

\* a loop that can take its next step takes it
SpecMacro ==
  /\ InitMacro
  /\ [][NextMacro]_vars
  /\ WF_vars(RangeIterate \/ RangeExit)
  /\ WF_vars(ForEachIterate \/ ForEachExit)

\* ---- properties of the comparison functions (SpecCmp) ----

\* the operands of the comparison recorded under pr
Left(pr) == pool.v[pr[1]]

Right(pr) == pool.v[pr[2]]

Sign(x) == B(x > 0) - B(x < 0)

\* C1: for each comparison function and every present handle x,
\* cmp(NULL, x) < 0, cmp(x, NULL) > 0 and cmp(NULL, NULL) = 0.
C1_NullOrdersFirst ==
  \A pr \in DOMAIN obs :
    /\ (Left(pr) = NULL /\ Right(pr) # NULL) => obs[pr] < 0
    /\ (Left(pr) # NULL /\ Right(pr) = NULL) => obs[pr] > 0
    /\ (Left(pr) = NULL /\ Right(pr) = NULL) => obs[pr] = 0

\* a double was compared with NULL in both argument orders
C1_Witness ==
  /\ fn = "util_double_cmp"
  /\ {<<1, 1>>, <<1, 2>>, <<2, 1>>} \subseteq DOMAIN obs
  /\ pool.v[1] = NULL
  /\ pool.v[2] # NULL
  /\ obs[<<1, 2>>] < 0
  /\ obs[<<2, 1>>] > 0
  /\ obs[<<1, 1>>] = 0

\* C2: util_int_cmp(a, b) is negative, zero or positive exactly when
\* *a < *b, *a = *b, *a > *b, for every pair of ints, INT_MIN and INT_MAX
\* included.
C2_IntCmpSign ==
  pool.kind = "int" =>
    \A pr \in DOMAIN obs :
      (Left(pr) # NULL /\ Right(pr) # NULL) =>
        Sign(obs[pr]) = B(Left(pr)[1] > Right(pr)[1]) - B(Left(pr)[1] < Right(pr)[1])

\* two present values are equal (for doubles, as == evaluates it)
SameValue(kind, x, y) == x = y \/ (kind = "double" /\ DEq(x, y))

\* C3: for every kind the comparison is a total order over
\* value-or-absent: cmp(a, a) = 0; sign(cmp(a, b)) = -sign(cmp(b, a));
\* cmp(a, b) <= 0 and cmp(b, c) <= 0 imply cmp(a, c) <= 0; cmp(a, b) = 0
\* only when both are absent or hold equal values.
C3_TotalOrder ==
  /\ <<1, 1>> \in DOMAIN obs => obs[<<1, 1>>] = 0
  /\ {<<1, 2>>, <<2, 1>>} \subseteq DOMAIN obs =>
       Sign(obs[<<1, 2>>]) = 0 - Sign(obs[<<2, 1>>])
  /\ {<<1, 2>>, <<2, 3>>, <<1, 3>>} \subseteq DOMAIN obs =>
       ((obs[<<1, 2>>] <= 0 /\ obs[<<2, 3>>] <= 0) => obs[<<1, 3>>] <= 0)
  /\ \A pr \in DOMAIN obs :
       obs[pr] = 0 =>
         \/ Left(pr) = NULL /\ Right(pr) = NULL
         \/ /\ Left(pr) # NULL
            /\ Right(pr) # NULL
            /\ SameValue(pool.kind, Left(pr)[1], Right(pr)[1])

\* ---- properties of the from-string functions (Spec) ----

\* the last call was name(str), it returned and its malloc succeeded
Returned(name) == fn = name /\ ~oom /\ ~aborted

\* C4: util_int_from_string returns a handle holding INT_MAX for
\* "2147483647" and INT_MIN for "-2147483648", and NULL for every text
\* whose leading decimal value lies outside INT_MIN..INT_MAX.
C4_IntRange ==
  Returned("util_int_from_string") =>
    LET p == strtol(arg.str[1])
    IN  /\ (p.end # 0 /\ p.val = IntToLong(INT_MAX)) =>
             Outcome(heap, ret) = Ptr(INT_MAX)
        /\ (p.end # 0 /\ p.val = IntToLong(INT_MIN)) =>
             Outcome(heap, ret) = Ptr(INT_MIN)
        /\ (\/ LongLess(IntToLong(INT_MAX), p.val)
            \/ LongLess(p.val, IntToLong(INT_MIN))) => ret = NULL

\* the long x lies in INT_MIN..INT_MAX
InIntRange(x) ==
  /\ ~LongLess(IntToLong(INT_MAX), x)
  /\ ~LongLess(x, IntToLong(INT_MIN))

\* C5: for every text that begins with a decimal integer n of
\* INT_MIN..INT_MAX, util_int_from_string returns a handle holding n,
\* whatever follows the digits.
C5_IntLeadingRun ==
  Returned("util_int_from_string") =>
    LET p == strtol(arg.str[1])
    IN  (p.end # 0 /\ InIntRange(p.val)) =>
          Outcome(heap, ret) = Ptr(LongToInt(p.val))

\* C6: for every text whose leading part is a well-formed number of the
\* finite double range, util_double_from_string entered with errno = 0
\* returns a handle holding the parsed value.
C6_DoubleWellFormed ==
  (Returned("util_double_from_string") /\ arg.errno = 0) =>
    LET p == strtod(arg.str[1])
    IN  (p.end # 0 /\ ~p.erange /\ p.val.cls = "fin") =>
          Outcome(heap, ret) = Ptr(p.val)

\* C7: the outcome of util_int_from_string and of util_double_from_string
\* on a text is the same whatever errno holds at the call, hence equal to
\* the outcome of every earlier call of the function on that text.
C7_ErrnoIndependent ==
  ((Returned("util_int_from_string") \/ Returned("util_double_from_string"))
     /\ <<fn, arg.str[1]>> \in DOMAIN obs) =>
    Outcome(heap, ret) = obs[<<fn, arg.str[1]>>]

\* number of characters the parser of the last call consumed
Consumed ==
  IF fn = "util_int_from_string" THEN strtol(arg.str[1]).end ELSE strtod(arg.str[1]).end

\* C8: util_int_from_string and util_double_from_string return NULL
\* whenever the parser consumes no character of the text.
C8_NothingParsed ==
  (/\ fn \in {"util_int_from_string", "util_double_from_string"}
   /\ ~aborted
   /\ Consumed = 0) =>
    ret = NULL

\* util_int_from_string got past its errno test on a text without a number
\* and returned NULL, with memory available
C8_Witness ==
  /\ Returned("util_int_from_string")
  /\ arg.str[1] = <<"q", "1">>
  /\ Consumed = 0
  /\ ret = NULL
  /\ errno = 0

\* C9: util_double_from_string returns NULL whenever strtod reports a
\* range error, for overflow and for underflow.
C9_DoubleRange ==
  (fn = "util_double_from_string" /\ ~aborted /\ strtod(arg.str[1]).erange) =>
    ret = NULL

\* the texts of the live blocks util_int_to_string returned
ToStringTexts ==
  {heap[a].val : a \in {b \in DOMAIN heap : heap[b].by = "util_int_to_string"}}

\* C10: for every int n, util_int_from_string(util_int_to_string(&n))
\* returns a handle h with util_int_cmp(h, &n) = 0.
C10_IntRoundTrip ==
  (/\ Returned("util_int_from_string")
   /\ pool.kind = "int"
   /\ pool.v[1] # NULL
   /\ arg.str[1] \in ToStringTexts) =>
    /\ ret # NULL
    /\ IntCmp(Outcome(heap, ret), pool.v[1]) = {0}

\* ---- properties of the to-string functions ----

\* C11: for every int n, util_int_to_string returns the exact decimal text
\* of n ("0" for 0, the ten digits of INT_MAX, the eleven characters of
\* INT_MIN), and the MAX_INT_LEN + 1 bytes it allocates hold that text and
\* its terminator.
C11_IntToStringExact ==
  (fn = "util_int_to_string" /\ ret # NULL) =>
    /\ heap[ret[1]].val = FormatInt(arg.h[1])
    /\ Len(FormatInt(arg.h[1])) + 1 <= MAX_INT_LEN + 1

\* the five to-string functions
ToStringNames ==
  { "util_generic_to_string", "util_char_to_string", "util_int_to_string",
    "util_double_to_string", "util_string_to_string" }

\* C12: each of the five to-string functions, called with the NULL handle,
\* returns NULL and allocates nothing; it never returns the text "null".
C12_NullToString ==
  [][(fn' \in ToStringNames /\ arg'.h = NULL) => (ret' = NULL /\ heap' = heap)]_vars

\* util_string_to_string was called with NULL while a block was live
C12_Witness ==
  /\ fn = "util_string_to_string"
  /\ arg.h = NULL
  /\ ret = NULL
  /\ heap # EmptyHeap

\* ---- properties of the print functions (SpecOut) ----

\* the five print functions
PrintNames ==
  { "util_generic_print", "util_char_print", "util_int_print",
    "util_double_print", "util_string_print" }

\* the four from-string functions
FromStringNames ==
  { "util_char_from_string", "util_int_from_string", "util_double_from_string",
    "util_string_from_string" }

\* C13: each of the five print functions, given the NULL handle and an
\* open stream, appends exactly the five bytes "null " to the stream and
\* returns 5.
C13_NullPrinted ==
  [][(fn' \in PrintNames /\ arg'.f # NULL /\ arg'.h = NULL) =>
       /\ stream' = Ptr(stream[1] \o <<"n", "u", "l", "l", " ">>)
       /\ ret' = 5]_vars

\* util_double_print wrote "null " after earlier output
C13_Witness ==
  /\ fn = "util_double_print"
  /\ arg.h = NULL
  /\ arg.f # NULL
  /\ Len(arg.f[1]) > 0
  /\ ret = 5

\* the token of a value of a kind
Token(kind, v) ==
  CASE kind = "generic" -> FormatPtr(v)
    [] kind = "char" -> <<v>>
    [] kind = "int" -> FormatInt(v)
    [] kind = "double" -> FormatDouble(v)
    [] kind = "string" -> v

\* C14: for every kind and every present handle, print appends the token
\* of the value followed by exactly one space, so that every token of the
\* stream, a double included, ends with a space.
C14_TokenThenSpace ==
  [][(fn' \in PrintNames /\ arg'.f # NULL /\ arg'.h # NULL) =>
       stream' = Ptr(stream[1] \o Token(pool.kind, arg'.h[1]) \o <<" ">>)]_vars

\* C15: with assertions enabled, a print function called with a NULL
\* stream and a from-string function called with a NULL text abort the
\* process before anything is written or allocated, and return nothing.
C15_NullAborts ==
  [][(\/ fn' \in PrintNames /\ arg'.f = NULL
      \/ fn' \in FromStringNames /\ arg'.str = NULL) =>
       /\ aborted'
       /\ stream' = stream
       /\ heap' = heap]_vars

\* util_int_from_string was called with a NULL text after output had been
\* written, and the process was aborted
C15_Witness ==
  /\ aborted
  /\ fn = "util_int_from_string"
  /\ arg.str = NULL
  /\ stream # NULL
  /\ Len(stream[1]) > 0

\* ---- properties of errno after a NULL result ----

\* C16: when util_int_from_string or util_double_from_string returns NULL
\* because malloc failed or the value is out of range, errno is nonzero on
\* return; errno is 0 after a NULL result only when no number could be
\* parsed from the text.
C16_ErrnoTellsCause ==
  (/\ fn \in {"util_int_from_string", "util_double_from_string"}
   /\ ~aborted
   /\ ret = NULL
   /\ errno = 0) =>
    (~oom /\ Consumed = 0)

\* C17: when a to-string function returns NULL because malloc failed,
\* errno is nonzero on return, which tells that case from a NULL handle.
C17_ToStringErrno ==
  (fn \in ToStringNames /\ ret = NULL /\ oom) => errno # 0

\* ---- properties of util_char_from_string and util_string_from_string ----

\* the first byte of a text: its terminator when the text is empty
FirstByte(t) == IF Len(t) = 0 THEN NUL ELSE t[1]

\* C18: util_char_from_string returns, for every text, a handle holding
\* the first byte of the text (NUL for the empty text, later bytes
\* ignored); it returns NULL only when the allocation fails.
C18_CharFirstByte ==
  (fn = "util_char_from_string" /\ ~aborted) =>
    IF oom THEN ret = NULL
    ELSE ret # NULL /\ Outcome(heap, ret) = Ptr(FirstByte(arg.str[1]))

\* util_char_from_string returned a handle holding NUL for the empty text
C18_Witness ==
  /\ fn = "util_char_from_string"
  /\ arg.str = Ptr(<< >>)
  /\ ret # NULL
  /\ Outcome(heap, ret) = Ptr(NUL)

C20_StringRoundTrip ==
  (/\ fn = "util_string_to_string"
   /\ pool.kind = "string"
   /\ arg.at # 0
   /\ ret # NULL) =>
    /\ heap[ret[1]].val = pool.v[1][1]
    /\ StringCmp(arg.h, pool.v[1]) = {0}

\* the round trip of the string "a b" was made
C20_Witness ==
  /\ fn = "util_string_to_string"
  /\ pool.kind = "string"
  /\ pool.v[1] = Ptr(<<"a", " ", "b">>)
  /\ arg.at # 0
  /\ ret # NULL
  /\ heap[ret[1]].val = <<"a", " ", "b">>

\* ---- properties of the allocations (SpecStr) ----

\* the number of calls free(Ptr(a)) in log
Frees(log, a) ==
  Cardinality({i \in DOMAIN log : log[i].op = "free" /\ log[i].at = Ptr(a)})

Differ(s, t) == {i \in DOMAIN s \cap DOMAIN t : s[i] # t[i]}

\* the sign of s against t in byte-wise lexicographic order: that of the
\* first bytes that differ, or of the lengths when one is a prefix
LexSign(s, t) ==
  IF Differ(s, t) = {} THEN Sign(Len(s) - Len(t))
  ELSE Sign(Ord(s[CHOOSE i \in Differ(s, t) : \A k \in Differ(s, t) : i <= k])
            - Ord(t[CHOOSE i \in Differ(s, t) : \A k \in Differ(s, t) : i <= k]))

PtrHexDigits == 2 * 8

HalfOpen(start, end) ==
  [k \in 1 .. (IF end >= start THEN end - start ELSE start - end) |->
     IF end >= start THEN start + (k - 1) ELSE start - (k - 1)]

\* C24: RANGE(i, start, end) runs its body for each integer from start
\* inclusive to end exclusive, up or down: never with i = end, not at all
\* when start = end, and the values run when the loop has ended are
\* exactly those.
C24_RangeHalfOpen ==
  fn = "RANGE" =>
    /\ \A k \in DOMAIN obs : obs[k] # arg.end
    /\ arg.start = arg.end => obs = << >>
    /\ loop.pc = "done" => obs = HalfOpen(arg.start, arg.end)

\* C25: COMPARE(x, y) is -1, 0 or 1 as x < y, x = y or x > y, and SIGN(x)
\* is -1, 0 or 1 as the x given to it is negative, zero or positive.
C25_CompareAndSign ==
  /\ fn = "COMPARE" =>
       ret = (IF arg[1] < arg[2] THEN -1 ELSE IF arg[1] = arg[2] THEN 0 ELSE 1)
  /\ fn = "SIGN" =>
       ret = (IF arg[1] < 0 THEN -1 ELSE IF arg[1] = 0 THEN 0 ELSE 1)

\* C30: FOR_EACH(i, A) over an array of n elements runs its body with i at
\* A + 0, A + 1, ..., A + (n - 1) in that order, each once, so n times in
\* all and not at all for an empty array, and the loop ends.
C30_ForEachVisitsAll ==
  /\ [](fn = "FOR_EACH" =>
         /\ Len(obs) <= Len(arg.A)
         /\ obs = [k \in 1 .. Len(obs) |-> k - 1]
         /\ loop.pc = "done" => Len(obs) = Len(arg.A))
  /\ ((loop.pc = "FOR_EACH") ~> (loop.pc = "done"))

\* C30 witness: the loop over an array of three elements has ended
C30_Witness ==
  /\ fn = "FOR_EACH"
  /\ loop.pc = "done"
  /\ Len(arg.A) = 3
  /\ obs = <<0, 1, 2>>

\* ---- properties of the allocations (SpecOut, SpecStr) ----

\* the calls of log that allocated a block
Allocations(log) ==
  {k \in DOMAIN log : log[k].op \in {"malloc", "strdup"} /\ log[k].at # NULL}

\* C26: when a from-string function returns NULL, every block the call
\* allocated was freed by it exactly once, after it was allocated; the
\* call freed no other block, and the live blocks are those of before.
\* This holds for util_string_from_string when malloc gave the container
\* and strdup failed.
C26_FailureReleasesAll ==
  [][(fn' \in FromStringNames /\ ~aborted' /\ ret' = NULL) =>
       /\ heap' = heap
       /\ \A k \in Allocations(mem') :
            /\ mem'[k].at[1] \notin DOMAIN heap
            /\ Frees(mem', mem'[k].at[1]) = 1
            /\ \E j \in DOMAIN mem' :
                 j > k /\ mem'[j].op = "free" /\ mem'[j].at = mem'[k].at
       /\ \A j \in DOMAIN mem' :
            (mem'[j].op = "free" /\ mem'[j].at # NULL) =>
              \E k \in Allocations(mem') : mem'[k].at = mem'[j].at]_vars

\* C26 witness: util_string_from_string returned NULL after malloc gave
\* the container and strdup failed
C26_Witness ==
  /\ fn = "util_string_from_string"
  /\ ~aborted
  /\ ret = NULL
  /\ Len(mem) = 4
  /\ mem[1].at # NULL
  /\ mem[2] = MemCall("strdup", NULL)

\* ---- ownership of the results (SpecOwn) ----

\* C27: a present result of a to-string or from-string call is a block
\* that was not live before the call, so it is distinct from the input,
\* from every other live block and from the results of earlier calls on
\* the same input; the call leaves the input and every other block as they
\* were and the result holds a copy, the string behind a string handle
\* being a new block too; freeing a block leaves the input and the other
\* blocks as they were.
C27_ResultsAreFresh ==
  [][/\ (fn' \in ToStringNames \cup FromStringNames /\ ret' # NULL) =>
          /\ ret'[1] \notin DOMAIN heap
          /\ ret'[1] \in DOMAIN heap'
          /\ \A a \in DOMAIN heap : a \in DOMAIN heap' /\ heap'[a] = heap[a]
          /\ pool' = pool
          /\ fn' = "util_string_from_string" =>
               /\ heap'[ret'[1]].val \notin DOMAIN heap
               /\ heap'[heap'[ret'[1]].val].val = arg'.str[1]
     /\ fn' \in {"free", "util_string_free"} =>
          /\ pool' = pool
          /\ \A a \in DOMAIN heap' : a \in DOMAIN heap /\ heap'[a] = heap[a]]_vars

\* C27 witness: two calls of util_int_to_string on the handle the caller
\* holds have returned two live blocks holding the same text
C27_Witness ==
  /\ fn = "util_int_to_string"
  /\ ret # NULL
  /\ arg.h = pool.v[1]
  /\ \E a \in DOMAIN heap : a # ret[1] /\ heap[a] = heap[ret[1]]

\* ---- what comparing and printing leave alone (SpecOut) ----

CmpNames == {"util_char_cmp", "util_int_cmp", "util_double_cmp", "util_string_cmp"}

\* C28: a compare call and a print call allocate and free nothing and
\* leave every block and the values behind the handles as they were; a
\* compare call also leaves the stream and errno as they were, and a print
\* call changes nothing but the stream.
C28_CompareAndPrintFrame ==
  [][/\ fn' \in CmpNames =>
          /\ mem' = << >>
          /\ heap' = heap
          /\ pool' = pool
          /\ stream' = stream
          /\ errno' = errno
     /\ fn' \in PrintNames =>
          /\ mem' = << >>
          /\ heap' = heap
          /\ pool' = pool
          /\ errno' = errno]_vars

\* C28 witness: strings were compared with a block live, errno set and
\* bytes written to the stream, and the call before was a print
C28_Witness ==
  /\ fn = "util_string_cmp"
  /\ DOMAIN heap # {}
  /\ errno = ERANGE
  /\ stream # NULL
  /\ Printed = MaxPrints
  /\ stream[1] # << >>

\* ---- the text of a double (SpecStr) ----

\* the length of the text "%.*g" with precision DBL_DIG formats a negative
\* double of n significant digits and decimal exponent x to
GLen(n, x) ==
  1 + Len(IF x < (0 - 4) \/ x >= DBL_DIG THEN FormatSci(Zeros(n), x)
          ELSE FormatFixed(Zeros(n), x - (n - 1)))

\* every such text fits MAX_DOUB_LEN characters, the exponents going from
\* that of the least subnormal, 10^-324, to DBL_MAX_10_EXP
LongestFits ==
  \A n \in 1 .. DBL_DIG :
    \A x \in (DBL_MIN_10_EXP - (DBL_DIG + 2)) .. DBL_MAX_10_EXP :
      GLen(n, x) <= MAX_DOUB_LEN

\* C29: the MAX_DOUB_LEN + 1 bytes util_double_to_string allocates hold
\* the longest text "%.*g" gives with DBL_DIG significant digits and the
\* terminator, in exponent form and in the form 0.000ddd, so the text
\* returned for a double is never cut.
C29_DoubleTextFits ==
  /\ LongestFits
  /\ (Returned("util_double_to_string") /\ arg.h # NULL) =>
       /\ ret # NULL
       /\ heap[ret[1]].val = FormatDouble(arg.h[1])
       /\ Len(heap[ret[1]].val) + 1 <= MAX_DOUB_LEN + 1

\* C29 witness: a text of MAX_DOUB_LEN characters was returned, with sign,
\* DBL_DIG digits and a three-digit exponent
C29_Witness ==
  /\ Returned("util_double_to_string")
  /\ arg.h # NULL
  /\ ret # NULL
  /\ Len(arg.h[1].lo) + NumDigits(arg.h[1].m) = DBL_DIG
  /\ Len(heap[ret[1]].val) = MAX_DOUB_LEN

====
